---- MODULE Spec2Model ----
(***************************************************************************)
(* Model of the solar system simulator (src/src/main.rs): the per-frame    *)
(* chain gravity_system -> movement_system -> camera_controller over the   *)
(* world spawned by setup_scene.                                           *)
(*                                                                         *)
(* Numbers.  The program computes in f32.  The model computes in integers  *)
(* on fixed grids; every division truncates toward zero (sign-symmetric,   *)
(* like IEEE rounding).  f32 rounding error itself is not modelled.        *)
(*   time       ticks of 1/TimeScale s        (1/60 s = 2 ticks)            *)
(*   position   1/PosScale world units                                     *)
(*   length     1/LenScale world units: a difference of two positions is    *)
(*              rounded to this grid before its length is taken             *)
(*   direction  1/DirScale (a unit vector has length DirScale)             *)
(*   force      1/FScale                                                   *)
(*   impulse    1/ImpScale (mass * velocity)                               *)
(*   velocity   1/VelScale, VelScale = ImpScale * MassLcm, so that an      *)
(*              impulse divided by any mass of MassSet is on the grid      *)
(*   angle      milliradians                                               *)
(*   cos^2      1/HScale                                                   *)
(***************************************************************************)
EXTENDS Integers, Sequences, FiniteSets, TLC

\* ---------------------------------------------------------------- bounds
MaxFrames == 2
MaxRawDt == 3
MaxCoord == 2

\* ------------------------------------------------------ program constants
GRAVITATIONAL_CONSTANT == 10
DtCap == 2
MinDistance == 2
ForceMultiplierInv == 100
PitchLimit == 1540
Sensitivity == 2
Speed == 25
SetupYaw == -785
SetupPitch == -401

\* ------------------------------------------------------------------ grids
TimeScale == 120
PosScale == 100000
LenScale == 1000
DirScale == 1000
FScale == 10
ImpScale == 10000
MassLcm == 3000
HScale == 10000
PiMilli == 3142

VelScale == ImpScale * MassLcm
ImpDen == (DirScale * FScale * TimeScale * ForceMultiplierInv) \div ImpScale
MoveDen == (VelScale \div PosScale) * TimeScale

\* ------------------------------------------------------------ arithmetic
Min(a, b) == IF a < b THEN a ELSE b

TDiv(a, b) == IF a >= 0 THEN a \div b ELSE -((-a) \div b)

RECURSIVE SqrtSearch(_, _, _)
SqrtSearch(n, lo, hi) ==
    IF lo >= hi THEN lo
    ELSE LET mid == (lo + hi + 1) \div 2
         IN  IF mid * mid <= n THEN SqrtSearch(n, mid, hi)
             ELSE SqrtSearch(n, lo, mid - 1)

Isqrt(n) == SqrtSearch(n, 0, 46340)

ZERO == <<0, 0, 0>>

VAdd(u, v) == <<u[1] + v[1], u[2] + v[2], u[3] + v[3]>>

VSub(u, v) == <<u[1] - v[1], u[2] - v[2], u[3] - v[3]>>

VMul(u, k) == <<u[1] * k, u[2] * k, u[3] * k>>

VTDiv(u, k) == <<TDiv(u[1], k), TDiv(u[2], k), TDiv(u[3], k)>>

Dot(u, v) == u[1] * v[1] + u[2] * v[2] + u[3] * v[3]

Length(u) == Isqrt(Dot(u, u))

Coarsen(u) == VTDiv(u, PosScale \div LenScale)

\* ------------------------------------------------------------ setup_scene
Sun == 1

SunBody ==
    [name |-> "Sun", mass |-> 1000, pos |-> <<0, 0, 0>>, vel |-> ZERO]

InnerPlanet ==
    [name |-> "Inner Planet", mass |-> 5,
     pos |-> <<12 * PosScale, 0, 0>>, vel |-> <<0, 0, (8 * VelScale) \div 10>>]

MiddlePlanet ==
    [name |-> "Middle Planet", mass |-> 8,
     pos |-> <<20 * PosScale, 0, 0>>, vel |-> <<0, 0, (6 * VelScale) \div 10>>]

OuterPlanetFast ==
    [name |-> "Outer Planet", mass |-> 6,
     pos |-> <<30 * PosScale, 0, 0>>, vel |-> <<0, 0, (6 * VelScale) \div 10>>]

OuterPlanet ==
    [name |-> "Outer Planet", mass |-> 6,
     pos |-> <<30 * PosScale, 0, 0>>, vel |-> <<0, 0, (4 * VelScale) \div 10>>]

SetupBodies == <<SunBody, InnerPlanet, MiddlePlanet, OuterPlanet>>

SetupRotation == [yaw |-> SetupYaw, pitch |-> SetupPitch]

\* ------------------------------------------------------------------ state
VARIABLES pc, frame, rawDt, button, keys, arrived, evOld, evNew,
          rot, camMove, orders, mass, pos, vel, pos0, vel0, rot0, mom0, used, ran

vars == <<pc, frame, rawDt, button, keys, arrived, evOld, evNew,
          rot, camMove, orders, mass, pos, vel, pos0, vel0, rot0, mom0, used, ran>>

bodyVars == <<orders, mass, pos, vel>>

inputVars == <<rawDt, button, arrived>>

Bodies == DOMAIN mass

\* ------------------------------------------------------------------- main
ChainMovementFirst == <<"movement_system", "gravity_system", "camera_controller">>

Chain == <<"gravity_system", "movement_system", "camera_controller">>

After(name) ==
    LET k == CHOOSE i \in 1..Len(Chain) : Chain[i] = name
    IN  IF k = Len(Chain) THEN "begin" ELSE Chain[k + 1]

\* --------------------------------------------------------- gravity_system
ClampDtNone(t) == t

ClampDt(t) == Min(t, DtCap)

TooCloseInclusive(distance) == distance <= MinDistance * LenScale

TooClose(distance) == distance < MinDistance * LenScale

ForceMagnitude(m1, m2, distance) ==
    TDiv(TDiv(GRAVITATIONAL_CONSTANT * m1 * m2 * FScale * LenScale, distance) * LenScale,
         distance)

ForceDirection(direction, distance) == VTDiv(VMul(direction, DirScale), distance)

DeltaV(forceDirection, forceMagnitude, m, dt) ==
    VMul(VTDiv(VMul(forceDirection, forceMagnitude * dt), ImpDen), MassLcm \div m)

Vel1AfterUnchanged(v1, dv) == v1

Vel1After(v1, dv) == VAdd(v1, dv)

Vel2AfterAdded(v2, dv) == VAdd(v2, dv)

Vel2After(v2, dv) == VSub(v2, dv)

PairStep(v, P, m, dt, i, j) ==
    LET direction == Coarsen(VSub(P[j], P[i]))
        distance == Length(direction)
    IN  IF TooClose(distance) THEN v
        ELSE LET forceMagnitude == ForceMagnitude(m[i], m[j], distance)
                 forceDirection == ForceDirection(direction, distance)
             IN  [v EXCEPT ![i] = Vel1After(@, DeltaV(forceDirection, forceMagnitude, m[i], dt)),
                           ![j] = Vel2After(@, DeltaV(forceDirection, forceMagnitude, m[j], dt))]

RECURSIVE PairsFrom(_, _, _)
PairsFrom(a, b, n) ==
    IF a >= n THEN <<>>
    ELSE IF b > n THEN PairsFrom(a + 1, a + 2, n)
    ELSE <<(<<a, b>>)>> \o PairsFrom(a, b + 1, n)

PairsBothWays(order) ==
    LET idx == PairsFrom(1, 2, Len(order))
    IN  [k \in 1..(2 * Len(idx)) |->
           IF k <= Len(idx) THEN <<order[idx[k][1]], order[idx[k][2]]>>
           ELSE <<order[idx[k - Len(idx)][2]], order[idx[k - Len(idx)][1]]>>]

Combinations(order) ==
    LET idx == PairsFrom(1, 2, Len(order))
    IN  [k \in 1..Len(idx) |-> <<order[idx[k][1]], order[idx[k][2]]>>]

QueryOrders(S) ==
    LET n == Cardinality(S)
    IN  {o \in [1..n -> S] : \A a, b \in 1..n : a # b => o[a] # o[b]}

RECURSIVE GravityPass(_, _, _, _, _)
GravityPass(v, P, m, dt, pairs) ==
    IF pairs = <<>> THEN v
    ELSE GravityPass(PairStep(v, P, m, dt, Head(pairs)[1], Head(pairs)[2]),
                     P, m, dt, Tail(pairs))

GravitySystem ==
    /\ pc = "gravity_system"
    /\ \E order \in orders :
         vel' = GravityPass(vel, pos, mass, ClampDt(rawDt), Combinations(order))
    /\ used' = [used EXCEPT !.gravity = ClampDt(rawDt)]
    /\ ran' = Append(ran, "gravity_system")
    /\ pc' = After("gravity_system")
    /\ UNCHANGED <<frame, inputVars, keys, evOld, evNew, rot, camMove, orders, mass, pos,
                   pos0, vel0, rot0, mom0>>

\* -------------------------------------------------------- movement_system
Translate(p, v, dt) == VAdd(p, VTDiv(VMul(v, dt), MoveDen))

MovementSystem ==
    /\ pc = "movement_system"
    /\ pos' = [i \in Bodies |-> Translate(pos[i], vel[i], ClampDt(rawDt))]
    /\ used' = [used EXCEPT !.movement = ClampDt(rawDt)]
    /\ ran' = Append(ran, "movement_system")
    /\ pc' = After("movement_system")
    /\ UNCHANGED <<frame, inputVars, keys, evOld, evNew, rot, camMove, orders, mass, vel,
                   pos0, vel0, rot0, mom0>>

\* ------------------------------------------------------ camera_controller
\* transform.rotation is always Ry(yaw) * Rx(pitch): it is held as that pair
\* in canonical form, yaw in (-pi, pi] and pitch in [-pi/2, pi/2], which is
\* what to_euler(EulerRot::YXZ) reads back from the quaternion.
WrapPi(a) ==
    LET m == a % (2 * PiMilli)
    IN  IF m > PiMilli THEN m - 2 * PiMilli ELSE m

HalfPi == PiMilli \div 2

FromYawPitch(yaw, pitch) ==
    LET p == WrapPi(pitch)
    IN  IF p > HalfPi THEN [yaw |-> WrapPi(yaw + PiMilli), pitch |-> PiMilli - p]
        ELSE IF p < -HalfPi THEN [yaw |-> WrapPi(yaw + PiMilli), pitch |-> -PiMilli - p]
        ELSE [yaw |-> WrapPi(yaw), pitch |-> p]

ToEulerYXZ(r) == <<r.yaw, r.pitch>>

Clamp(x, lo, hi) == IF x < lo THEN lo ELSE IF x > hi THEN hi ELSE x

AngleStep(delta, dt) == TDiv(delta * Sensitivity * dt * 1000, TimeScale)

ClampPitchNone(pitch) == pitch

ClampPitch(pitch) == Clamp(pitch, -PitchLimit, PitchLimit)

NewPitch(pitch, dy, dt) == ClampPitch(pitch - AngleStep(dy, dt))

ApplyEvent(r, e, dt) ==
    LET yp == ToEulerYXZ(r)
        yaw == yp[1] - AngleStep(e[1], dt)
        pitch == NewPitch(yp[2], e[2], dt)
    IN  FromYawPitch(yaw, pitch)

RECURSIVE ApplyEvents(_, _, _)
ApplyEvents(r, events, dt) ==
    IF events = <<>> THEN r
    ELSE ApplyEvents(ApplyEvent(r, Head(events), dt), Tail(events), dt)

\* Movement vectors are held by their coordinates on (forward, right, Vec3::Y).
\* forward = -(local_z.x, 0, local_z.z) and right = (local_z.z, 0, -local_z.x)
\* are orthogonal, horizontal, and both of squared length
\* local_z.x^2 + local_z.z^2 = cos(pitch)^2, here in 1/HScale.
HorizontalSq(r) ==
    LET p2 == r.pitch * r.pitch
        c == ((PiMilli * PiMilli - 4 * p2) * 100) \div (PiMilli * PiMilli + p2)
    IN  c * c

Forward == <<1, 0, 0>>

Right == <<0, 1, 0>>

VecY == <<0, 0, 1>>

Keys == {"KeyW", "KeyS", "KeyA", "KeyD", "Space", "ShiftLeft"}

KeyVelocity(held) ==
    LET v0 == ZERO
        v1 == IF "KeyW" \in held THEN VAdd(v0, Forward) ELSE v0
        v2 == IF "KeyS" \in held THEN VSub(v1, Forward) ELSE v1
        v3 == IF "KeyA" \in held THEN VSub(v2, Right) ELSE v2
        v4 == IF "KeyD" \in held THEN VAdd(v3, Right) ELSE v3
        v5 == IF "Space" \in held THEN VAdd(v4, VecY) ELSE v4
        v6 == IF "ShiftLeft" \in held THEN VSub(v5, VecY) ELSE v5
    IN  v6

LengthSq(v, h2) == (v[1] * v[1] + v[2] * v[2]) * h2 + v[3] * v[3] * HScale

NormalizeSkipped(v, h2) == [dir |-> v, div |-> HScale]

\* A vector dir / sqrt(div / HScale); the zero vector has dir = ZERO.
NormalizeOrZero(v, h2) ==
    IF LengthSq(v, h2) = 0 THEN [dir |-> ZERO, div |-> HScale]
    ELSE [dir |-> v, div |-> LengthSq(v, h2)]

CameraDt(t) == t

Translation(held, r, dt) ==
    LET velocity == NormalizeOrZero(KeyVelocity(held), HorizontalSq(r))
    IN  [dir |-> velocity.dir, div |-> velocity.div, h2 |-> HorizontalSq(r),
         step |-> CameraDt(dt) * Speed]

NoMove == [dir |-> ZERO, div |-> HScale, h2 |-> HScale, step |-> 0]

Readable(old, new) == old \o new

CameraController ==
    /\ pc = "camera_controller"
    /\ \E held \in SUBSET Keys :
         /\ keys' = held
         /\ camMove' = Translation(held, rot, rawDt)
    /\ IF button
         THEN /\ rot' = ApplyEvents(rot, Readable(evOld, evNew), CameraDt(rawDt))
              /\ evOld' = <<>>
              /\ evNew' = <<>>
         ELSE UNCHANGED <<rot, evOld, evNew>>
    /\ used' = [used EXCEPT !.camera = CameraDt(rawDt)]
    /\ ran' = Append(ran, "camera_controller")
    /\ pc' = After("camera_controller")
    /\ UNCHANGED <<frame, inputVars, bodyVars, pos0, vel0, rot0, mom0>>

\* ------------------------------------------------------------ host runtime
\* What the engine does between two runs of the chain: Time advances, the
\* input state is refreshed, the MouseMotion events of the window are
\* pushed to the newer event buffer, and the buffers are rotated (the older
\* one dropped) on the frames in which the engine's fixed-timestep loop ran
\* at least once (timestep 1/64 s): there the frames shorter than the
\* timestep may or may not rotate them.
MouseDeltas == {<<30, -60>>, <<0, 30>>}

EventBatches ==
    {<<>>, <<(<<30, -60>>)>>, <<(<<0, 30>>), (<<30, -60>>)>>}

BuffersRotate(t) == IF 64 * t >= TimeScale THEN {TRUE} ELSE BOOLEAN

Momentum(m, v) ==
    LET RECURSIVE Sum(_)
        Sum(S) == IF S = {} THEN ZERO
                  ELSE LET i == CHOOSE x \in S : TRUE
                       IN  VAdd(VMul(v[i], m[i]), Sum(S \ {i}))
    IN  Sum(DOMAIN m)

NoneUsed == [gravity |-> -1, movement |-> -1, camera |-> -1]

BeginFrame ==
    /\ pc = "begin"
    /\ frame < MaxFrames
    /\ frame' = frame + 1
    /\ \E t \in 0..MaxRawDt, b \in BOOLEAN, batch \in EventBatches :
         \E rotate \in BuffersRotate(t) :
           /\ rawDt' = t
           /\ button' = b
           /\ arrived' = batch
           /\ IF rotate
                THEN evOld' = evNew \o batch /\ evNew' = <<>>
                ELSE evOld' = evOld /\ evNew' = evNew \o batch
    /\ keys' = {}
    /\ camMove' = NoMove
    /\ pos0' = pos
    /\ vel0' = vel
    /\ rot0' = rot
    /\ used' = NoneUsed
    /\ ran' = <<>>
    /\ pc' = Chain[1]
    /\ UNCHANGED <<rot, bodyVars, mom0>>

Init ==
    /\ pc = "begin"
    /\ frame = 0
    /\ rawDt = 0
    /\ button = FALSE
    /\ keys = {}
    /\ arrived = <<>>
    /\ evOld = <<>>
    /\ evNew = <<>>
    /\ rot = SetupRotation
    /\ camMove = NoMove
    /\ orders = {[k \in 1..Len(SetupBodies) |-> k]}
    /\ mass = [i \in 1..Len(SetupBodies) |-> SetupBodies[i].mass]
    /\ pos = [i \in 1..Len(SetupBodies) |-> SetupBodies[i].pos]
    /\ vel = [i \in 1..Len(SetupBodies) |-> SetupBodies[i].vel]
    /\ pos0 = pos
    /\ vel0 = vel
    /\ rot0 = rot
    /\ mom0 = Momentum(mass, vel)
    /\ used = NoneUsed
    /\ ran = <<>>

Next == BeginFrame \/ GravitySystem \/ MovementSystem \/ CameraController

Spec == Init /\ [][Next]_vars

\* -------------------------------------------- the pass on arbitrary bodies
\* gravity_system and movement_system are functions of the bodies and of the
\* frame time alone.  SpecPass runs them from bodies drawn from bounded sets
\* (lattice positions, among them pairs nearer than, exactly at and beyond
\* the distance floor), frame after frame; camera_controller queries only
\* the Camera3d entity and is left out of this specification.
Lattice == {<<x * PosScale, y * PosScale, z * PosScale>> : x, y, z \in 0..MaxCoord}

Axis == {p \in Lattice : p[2] = 0 /\ p[3] = 0}

PassMasses == {<<5, 8, 6>>, <<1000, 5, 8>>}

PassVelocities ==
    {<<(<<3 * MassLcm, 0, -MassLcm>>), (<<0, 0, (8 * VelScale) \div 10>>),
       (<<-(VelScale \div 2), MassLcm, 0>>)>>}

InitPass ==
    /\ pc = "gravity_system"
    /\ frame = 1
    /\ rawDt \in 0..MaxRawDt
    /\ button = FALSE
    /\ keys = {}
    /\ arrived = <<>>
    /\ evOld = <<>>
    /\ evNew = <<>>
    /\ rot = SetupRotation
    /\ camMove = NoMove
    /\ orders = QueryOrders({1, 2, 3})
    /\ mass \in PassMasses
    /\ \E p2 \in Axis, p3 \in Lattice : pos = <<ZERO, p2, p3>>
    /\ vel \in PassVelocities
    /\ pos0 = pos
    /\ vel0 = vel
    /\ rot0 = rot
    /\ mom0 = Momentum(mass, vel)
    /\ used = NoneUsed
    /\ ran = <<>>

NextPassFrame ==
    /\ pc = "camera_controller"
    /\ frame < MaxFrames
    /\ frame' = frame + 1
    /\ rawDt' \in 0..MaxRawDt
    /\ pos0' = pos
    /\ vel0' = vel
    /\ used' = NoneUsed
    /\ ran' = <<>>
    /\ pc' = Chain[1]
    /\ UNCHANGED <<button, keys, arrived, evOld, evNew, rot, camMove, bodyVars,
                   rot0, mom0>>

NextPass == GravitySystem \/ MovementSystem \/ NextPassFrame

SpecPass == InitPass /\ [][NextPass]_vars

\* ================================================================ claims
FrameDone == pc = "begin" /\ frame > 0

Ran(name) == \E k \in 1..Len(ran) : ran[k] = name

StepDt == Min(rawDt, DtCap)

IdentityOrder == [k \in 1..Cardinality(Bodies) |-> k]

\* C1: in every frame the three systems run once each, gravity_system then
\* movement_system then camera_controller, and the integrator moves every
\* body by the velocity the force pass of the same frame produced:
\* position = position at frame start + v_after_force * dt.
C1_ChainOrderAndFreshVelocity ==
    /\ \E k \in 0..3 :
         ran = SubSeq(<<"gravity_system", "movement_system", "camera_controller">>, 1, k)
    /\ FrameDone => Len(ran) = 3
    /\ Ran("gravity_system") =>
         vel = GravityPass(vel0, pos0, mass, StepDt, Combinations(IdentityOrder))
    /\ ~Ran("gravity_system") => vel = vel0
    /\ Ran("movement_system") =>
         \A i \in Bodies : pos[i] = VAdd(pos0[i], VTDiv(VMul(vel[i], StepDt), MoveDen))
    /\ ~Ran("movement_system") => pos = pos0

C1_Witness ==
    /\ FrameDone
    /\ frame = 2
    /\ rawDt > 0
    /\ \E i \in Bodies : vel[i] # vel0[i] /\ pos[i] # pos0[i]
    /\ \E i \in Bodies :
         pos[i] # VAdd(pos0[i], VTDiv(VMul(vel0[i], StepDt), MoveDen))

\* C2: a force pass leaves the total momentum (sum of mass * velocity)
\* unchanged whatever the positions, masses and dt and whether or not pairs
\* are skipped; the integrator changes no velocity, so after any number of
\* frames the total momentum is the one the bodies started with.
C2_MomentumConserved ==
    /\ Momentum(mass, vel) = Momentum(mass, vel0)
    /\ Momentum(mass, vel) = mom0

Dist2(i, j) ==
    Dot(Coarsen(VSub(pos0[j], pos0[i])), Coarsen(VSub(pos0[j], pos0[i])))

Floor2 == (MinDistance * LenScale) * (MinDistance * LenScale)

C2_Witness ==
    /\ Ran("movement_system")
    /\ frame = 2
    /\ StepDt > 0
    /\ vel # vel0
    /\ \E i, j \in Bodies : i # j /\ Dist2(i, j) < Floor2
    /\ \E i, j \in Bodies : i # j /\ Dist2(i, j) >= Floor2

\* C3: a pair whose distance at the start of the pass is strictly below 2.0
\* contributes nothing to either velocity (each body moves as if the other
\* were absent, its other pairs still acting); a pair at exactly 2.0 is not
\* skipped and does contribute.
WithoutBody(j) ==
    LET order == CHOOSE o \in QueryOrders(Bodies \ {j}) : TRUE
    IN  GravityPass(vel0, pos0, mass, StepDt, Combinations(order))

C3_DistanceFloor ==
    Ran("gravity_system") =>
      \A i, j \in Bodies :
        i # j =>
          /\ Dist2(i, j) < Floor2 => vel[i] = WithoutBody(j)[i]
          /\ (Dist2(i, j) = Floor2 /\ StepDt > 0) => vel[i] # WithoutBody(j)[i]

C3_Witness ==
    /\ Ran("gravity_system")
    /\ StepDt > 0
    /\ \E i, j, k \in Bodies :
         /\ i # j /\ j # k /\ i # k
         /\ Dist2(i, j) < Floor2 /\ Dist2(i, j) > 0
         /\ Dist2(i, k) = Floor2
         /\ vel[i] # vel0[i]
         /\ vel[j] # vel0[j]

\* C9: one force pass changes the velocity of body i by the sum, over every
\* other body j at distance d >= 2.0 from i, of
\* unit(position_j - position_i) * G * mass_j / d^2 * dt * 0.01 with G = 10,
\* on the positions held at the start of the pass; each unordered pair counts
\* once, and the result is the same for every order of visiting the pairs.
NewtonTerm(i, j) ==
    LET direction == VTDiv(VSub(pos0[j], pos0[i]), PosScale \div LenScale)
        d == Isqrt(Dot(direction, direction))
        unit == VTDiv(VMul(direction, DirScale), d)
        \* G * mass_i * mass_j / d^2, the force, in 1/FScale
        force == TDiv(TDiv(10 * mass[i] * mass[j] * FScale * LenScale, d) * LenScale, d)
        \* force * dt * 0.01, the impulse, in 1/ImpScale
        impulse == VTDiv(VMul(unit, force * StepDt),
                         (DirScale * FScale * TimeScale * 100) \div ImpScale)
    IN  \* impulse / mass_i, in 1/VelScale
        VMul(impulse, VelScale \div (ImpScale * mass[i]))

RECURSIVE NewtonSum(_, _)
NewtonSum(i, S) ==
    IF S = {} THEN ZERO
    ELSE LET j == CHOOSE x \in S : TRUE
         IN  VAdd(NewtonTerm(i, j), NewtonSum(i, S \ {j}))

C9_PassIsPairwiseSum ==
    /\ Ran("gravity_system") =>
         \A i \in Bodies :
           vel[i] = VAdd(vel0[i],
                         NewtonSum(i, {j \in Bodies \ {i} : Dist2(i, j) >= 2 * 2 * LenScale * LenScale}))
    /\ (Ran("gravity_system") /\ ~Ran("movement_system")) => pos = pos0

C9_Witness ==
    /\ Ran("gravity_system")
    /\ ~Ran("movement_system")
    /\ StepDt > 0
    /\ \A i, j \in Bodies : i # j => Dist2(i, j) >= Floor2
    /\ \A i \in Bodies : vel[i] # vel0[i]
    /\ \E i \in Bodies : pos[i][2] # 0

\* C4: in every reachable state the camera pitch (the X angle of the
\* orientation read as yaw-then-pitch) is within [-1.54, 1.54] rad: after
\* setup, after every processed mouse-motion event, and in frames without
\* any look update.
C4_PitchWithinLimit ==
    /\ ToEulerYXZ(rot)[2] >= -1540
    /\ ToEulerYXZ(rot)[2] <= 1540

C4_Witness ==
    /\ FrameDone
    /\ button
    /\ rot.pitch = PitchLimit
    /\ rot0.pitch < PitchLimit
    /\ \E k \in 1..Len(arrived) :
         rot0.pitch - AngleStep(arrived[k][2], rawDt) > PitchLimit

\* C5: for every combination of held movement keys the translation of the
\* camera in one frame has magnitude zero or exactly speed * frame time; it
\* is zero when no key is held and when the held keys are only complete
\* opposite pairs (W+S, A+D, Space+ShiftLeft).
OnlyOppositePairs(held) ==
    /\ ("KeyW" \in held) <=> ("KeyS" \in held)
    /\ ("KeyA" \in held) <=> ("KeyD" \in held)
    /\ ("Space" \in held) <=> ("ShiftLeft" \in held)

\* |translation|^2 = (MoveNum / MoveDiv) * step^2, step = speed * frame time
MoveNum == LengthSq(camMove.dir, camMove.h2)

MoveDiv == camMove.div

C5_TranslationMagnitude ==
    FrameDone =>
      /\ camMove.step = 25 * rawDt
      /\ MoveNum = 0 \/ MoveNum = MoveDiv
      /\ OnlyOppositePairs(keys) => MoveNum = 0

C5_Witness ==
    /\ FrameDone
    /\ keys = {"KeyW", "KeyD", "Space"}
    /\ rawDt > 0
    /\ MoveNum = MoveDiv
    /\ MoveNum # 3 * HScale
    /\ camMove.step > 0

\* C6 (as stated): the frame time every one of the three routines steps by,
\* the camera translation and its yaw/pitch increments included, is the raw
\* frame time clamped to at most 1/60 s.
C6_AllThreeClamped ==
    FrameDone =>
      /\ used.gravity = Min(rawDt, DtCap)
      /\ used.movement = Min(rawDt, DtCap)
      /\ used.camera = Min(rawDt, DtCap)
      /\ camMove.step <= Speed * DtCap

\* C6 (amended): gravity_system and movement_system step by the raw frame
\* time clamped to at most 1/60 s; camera_controller steps its translation
\* and its yaw/pitch increments by the raw, unclamped frame time.
C6_BodiesClampedCameraRaw ==
    /\ \A f \in {"gravity", "movement"} : used[f] <= 2
    /\ Ran("gravity_system") => used.gravity = Min(rawDt, 2)
    /\ Ran("movement_system") =>
         /\ used.movement = Min(rawDt, 2)
         /\ \A i \in Bodies :
              pos[i] = VAdd(pos0[i], VTDiv(VMul(vel[i], Min(rawDt, 2)), MoveDen))
    /\ FrameDone =>
         /\ used.camera = rawDt
         /\ camMove.step = Speed * rawDt

C6_Witness ==
    /\ FrameDone
    /\ rawDt > DtCap
    /\ used.gravity = DtCap
    /\ used.movement = DtCap
    /\ used.camera > DtCap
    /\ camMove.step > Speed * DtCap
    /\ MoveNum # 0
    /\ rot # rot0

\* C7 (as stated): after setup the three planets are at strictly increasing
\* distances from the origin, their masses and their initial speeds strictly
\* decrease with that distance, and each initial velocity is perpendicular
\* to the radius vector.
Planets == <<2, 3, 4>>

Coarse(v) == VTDiv(v, MassLcm)

RadiiIncrease ==
    \A k \in 1..2 : Dot(Coarsen(pos[Planets[k]]), Coarsen(pos[Planets[k]]))
                      < Dot(Coarsen(pos[Planets[k + 1]]), Coarsen(pos[Planets[k + 1]]))

SpeedsDecrease ==
    \A k \in 1..2 :
      Dot(Coarse(vel[Planets[k]]), Coarse(vel[Planets[k]]))
        > Dot(Coarse(vel[Planets[k + 1]]), Coarse(vel[Planets[k + 1]]))

Tangential ==
    \A k \in 1..3 :
      /\ Dot(Coarsen(pos[Planets[k]]), Coarse(vel[Planets[k]])) = 0
      /\ vel[Planets[k]] # ZERO

C7_MassesDecrease ==
    frame = 0 =>
      /\ RadiiIncrease
      /\ SpeedsDecrease
      /\ Tangential
      /\ \A k \in 1..2 : mass[Planets[k]] > mass[Planets[k + 1]]

\* C7 (amended): after setup the three planets are at strictly increasing
\* distances from the origin and their initial speeds strictly decrease with
\* that distance, each initial velocity perpendicular to the radius vector;
\* the masses do not decrease with distance: they are 5, 8 and 6, the middle
\* planet the heaviest.
C7_SpeedsDecreaseMassesDoNot ==
    frame = 0 =>
      /\ RadiiIncrease
      /\ SpeedsDecrease
      /\ Tangential
      /\ <<mass[Planets[1]], mass[Planets[2]], mass[Planets[3]]>> = <<5, 8, 6>>

C7_Witness ==
    /\ frame = 0
    /\ pc = "begin"
    /\ Cardinality(Bodies) = 4
    /\ pos[2] = <<12 * PosScale, 0, 0>>
    /\ mass[3] > mass[2]

SetupState ==
    /\ pos0 = [i \in 1..Len(SetupBodies) |-> SetupBodies[i].pos]
    /\ vel0 = [i \in 1..Len(SetupBodies) |-> SetupBodies[i].vel]

C10_OnlyThisFramesEvents ==
    FrameDone =>
      rot = IF button THEN ApplyEvents(rot0, arrived, rawDt) ELSE rot0
====
